---- MODULE Spec2Model ----
(***************************************************************************)
(* Model of src/src/main.js: the reactive store (reactiveSystem) with its  *)
(* microtask-batched effect scheduler, and the template-cloning renderer   *)
(* (domRendering).                                                         *)
(*                                                                         *)
(* JavaScript is single threaded and run-to-completion: one "turn" is one  *)
(* job of user code (the main script, a timer callback or a promise        *)
(* reaction).  The microtask queue is explicit, so the deferred flush      *)
(* callback of onSet runs only between turns.                              *)
(***************************************************************************)
EXTENDS Integers, Sequences, FiniteSets, TLC

(* ------------------------------ bounds --------------------------------- *)
MaxQueue == 2      \* user writes stop growing effectsForFlush beyond this
MaxFlushLen == 12  \* a flush pass stops being followed beyond this length
MaxRegs == 2       \* top-level useEffect calls made by user code
MaxMicro == 2      \* microtasks waiting at any moment
MaxList == 4      \* reads stop growing a list of the dependency map beyond this
MaxVal == 2        \* user code writes the values 1..MaxVal
SumMaxVal == 4     \* values of the sum scenario (main.js:243-264 uses 1..4)
MaxStub == 3       \* stub markers __stub-0__ .. __stub-MaxStub__ are recognised

(* --------------------------- JS values --------------------------------- *)
\* Numbers are naturals; the two non-numbers the program can produce are
\* encoded below zero.  undefined: a property rawState does not have.
Undefined == 0 - 1
NaN == 0 - 2
Null == "null"

\* the + of `state.foo + state.bar` on numbers / undefined / NaN
Plus(a, b) == IF a < 0 \/ b < 0 THEN NaN ELSE a + b

(* ------------------------- effects (closures) -------------------------- *)
\* An effect is a zero-argument closure; its identity is its name here and
\* its body is a straight-line program over the proxy:
\*   get k : acc = state.k        add k : acc = acc + state.k
\*   set k : state.k = acc        use e : useEffect(e)
\*   throwIf v : if (acc === v) throw
Ins(op, k, e, v) == [op |-> op, k |-> k, e |-> e, v |-> v]
IGet(k) == Ins("get", k, Null, 0)
IAdd(k) == Ins("add", k, Null, 0)
ISet(k) == Ins("set", k, Null, 0)
IUse(e) == Ins("use", "", e, 0)
IThrowIf(v) == Ins("throwIf", "", Null, v)

Keys == {"foo", "bar", "sum"}

\* sumE is the effect of the demo, main.js:246-248 (and dream code 65-67)
Body(e) ==
  CASE e = "sumE"   -> <<IGet("foo"), IAdd("bar"), ISet("sum")>>
    [] e = "watchE" -> <<IGet("sum")>>
    [] e = "twiceE" -> <<IGet("foo"), IAdd("foo")>>
    [] e = "selfE"  -> <<IGet("foo"), ISet("foo")>>
    [] e = "throwE" -> <<IGet("bar"), IThrowIf(2)>>
    [] e = "innerE" -> <<IGet("bar")>>
    [] e = "outerE" -> <<IUse("innerE"), IGet("foo")>>
    [] OTHER        -> <<>>

Effects == {"sumE", "watchE", "twiceE", "selfE", "throwE", "innerE", "outerE"}

VARIABLES
  rawState,                 \* main.js:152  property -> value (partial)
  propertyKeyToEffectsMap,  \* main.js:80   property -> list of effects (partial)
  currentEffect,            \* main.js:83
  effectsForFlush,          \* main.js:116
  queued,                   \* main.js:118
  microtasks,               \* host microtask queue: "flush" | "user" jobs
  phase,                    \* "user" | "micro" | "flush"
  flushIdx,                 \* entries the for-of of flush has consumed
  cfg,                      \* what the user code of this run may do
  nreg,                     \* top-level useEffect calls made so far
  lastW,                    \* history: last value handed to the set trap
  inv,                      \* history: effect invocations of the last step
  lastOp,                   \* history: the last step
  flushLog,                 \* history: effects invoked by the current flush
  owed,                     \* history: list entries of the keys written since
                            \*          the last completed flush
  tokensToTemplates,        \* main.js:191  call site -> compiled template
  parses,                   \* history: call site -> times its markup was parsed
  node,                     \* the element the last html call returned
  lastCall                  \* history: the last html call

rvars == <<rawState, propertyKeyToEffectsMap, currentEffect, effectsForFlush,
           queued, microtasks, phase, flushIdx, cfg, nreg, lastW, inv,
           lastOp, flushLog, owed>>

dvars == <<tokensToTemplates, parses, node, lastCall>>

vars == <<rvars, dvars>>

(* ------------------------ the store as a value ------------------------- *)
St == [rawState |-> rawState, map |-> propertyKeyToEffectsMap,
       currentEffect |-> currentEffect, effectsForFlush |-> effectsForFlush,
       queued |-> queued, microtasks |-> microtasks, thrown |-> FALSE,
       lastW |-> lastW, inv |-> <<>>, owed |-> owed]

\* Reflect.get(target, propertyKey): undefined for a missing property
ReflectGet(raw, k) == IF k \in DOMAIN raw THEN raw[k] ELSE Undefined

\* Reflect.set(target, propertyKey, newValue)
ReflectSet(raw, k, v) == [x \in DOMAIN raw \cup {k} |-> IF x = k THEN v ELSE raw[x]]

\* keys whose stored value differs from the last value written to them
Stale(s) == {k \in DOMAIN s.lastW : ReflectGet(s.rawState, k) # s.lastW[k]}

Invoked(s, e, via) ==
  [s EXCEPT !.inv = Append(@, [e |-> e, via |-> via, stale |-> Stale(s)])]

RECURSIVE RunFrom(_, _, _, _)
RECURSIVE useEffect(_, _)

\* onGet that creates the entry but never records the running effect
onGetNoTrack(s, propertyKey) ==
  IF propertyKey \in DOMAIN s.map THEN s
  ELSE [s EXCEPT !.map = [x \in DOMAIN s.map \cup {propertyKey} |->
                            IF x = propertyKey THEN <<>> ELSE s.map[x]]]

\* onGet that starts a new list for the key on every tracked read
onGetReplace(s, propertyKey) ==
  [s EXCEPT !.map = [x \in DOMAIN s.map \cup {propertyKey} |->
     IF x = propertyKey
     THEN (IF s.currentEffect # Null THEN <<s.currentEffect>> ELSE <<>>)
     ELSE s.map[x]]]

\* main.js:94-106
onGet(s, propertyKey) ==
  LET m1 == IF propertyKey \in DOMAIN s.map THEN s.map
            ELSE [x \in DOMAIN s.map \cup {propertyKey} |->
                    IF x = propertyKey THEN <<>> ELSE s.map[x]]
      m2 == IF s.currentEffect # Null
            THEN [m1 EXCEPT ![propertyKey] = Append(@, s.currentEffect)]
            ELSE m1
  IN [s EXCEPT !.map = m2]

\* onSet with the queueMicrotask forgotten: the effects of the key run at once
onSetSync(s, propertyKey) ==
  LET RECURSIVE RunList(_, _, _)
      RunList(t, list, i) ==
        IF i > Len(list) \/ t.thrown THEN t
        ELSE RunList(RunFrom([t EXCEPT !.inv = Append(@,
                        [e |-> list[i], via |-> "flush", stale |-> Stale(t)])],
                        list[i], 1, Undefined), list, i + 1)
  IN IF propertyKey \in DOMAIN s.map
     THEN RunList(s, s.map[propertyKey], 1)
     ELSE s

\* onSet pushing only the effects that are not queued yet
onSetDedup(s, propertyKey) ==
  IF propertyKey \in DOMAIN s.map
  THEN LET list == s.map[propertyKey]
           RECURSIVE Push(_, _)
           Push(q, i) ==
             IF i > Len(list) THEN q
             ELSE Push(IF \E j \in DOMAIN q : q[j] = list[i] THEN q
                       ELSE Append(q, list[i]), i + 1)
           s1 == [s EXCEPT !.effectsForFlush = Push(@, 1)]
       IN IF ~s1.queued
          THEN [s1 EXCEPT !.queued = TRUE,
                          !.microtasks = Append(@, "flush")]
          ELSE s1
  ELSE s

\* onSet that pushes the effects of the key only when it schedules the flush
onSetPushWhenScheduling(s, propertyKey) ==
  IF propertyKey \in DOMAIN s.map /\ ~s.queued
  THEN [s EXCEPT !.effectsForFlush = @ \o s.map[propertyKey],
                 !.queued = TRUE,
                 !.microtasks = Append(@, "flush")]
  ELSE s

\* onSet with the test of the flag at main.js:137 left out
onSetAlwaysSchedule(s, propertyKey) ==
  IF propertyKey \in DOMAIN s.map
  THEN [s EXCEPT !.effectsForFlush = @ \o s.map[propertyKey],
                 !.queued = TRUE,
                 !.microtasks = Append(@, "flush")]
  ELSE s

\* main.js:130-145
onSet(s, propertyKey) ==
  IF propertyKey \in DOMAIN s.map
  THEN LET s1 == [s EXCEPT !.effectsForFlush = @ \o s.map[propertyKey]]
       IN IF ~s1.queued
          THEN [s1 EXCEPT !.queued = TRUE,
                          !.microtasks = Append(@, "flush")]
          ELSE s1
  ELSE s

\* Proxy get trap, main.js:154-158 (the value is ReflectGet of the result)
ProxyGet(s, k) == onGet(s, k)

\* Proxy set trap, main.js:160-164
ProxySet(s, k, v) ==
  LET s0 == [s EXCEPT !.lastW = ReflectSet(@, k, v),
                      !.owed = @ \o (IF k \in DOMAIN s.map THEN s.map[k]
                                     ELSE <<>>)]
      s1 == onSet(s0, k)
  IN [s1 EXCEPT !.rawState = ReflectSet(@, k, v)]

\* the body of effect e from instruction i on, acc being its local value
RunFrom(s, e, i, acc) ==
  IF s.thrown \/ i > Len(Body(e)) THEN s
  ELSE LET ins == Body(e)[i] IN
    CASE ins.op = "get" ->
           RunFrom(ProxyGet(s, ins.k), e, i + 1, ReflectGet(s.rawState, ins.k))
      [] ins.op = "add" ->
           RunFrom(ProxyGet(s, ins.k), e, i + 1,
                   Plus(acc, ReflectGet(s.rawState, ins.k)))
      [] ins.op = "set" ->
           RunFrom(ProxySet(s, ins.k, acc), e, i + 1, acc)
      [] ins.op = "use" ->
           RunFrom(useEffect(s, ins.e), e, i + 1, acc)
      [] ins.op = "throwIf" ->
           IF acc = ins.v THEN [s EXCEPT !.thrown = TRUE]
           ELSE RunFrom(s, e, i + 1, acc)

\* useEffect that queues the effect for the next flush instead of calling it
useEffectDeferred(s, effect) ==
  LET s1 == [s EXCEPT !.effectsForFlush = Append(@, effect)]
  IN IF ~s1.queued
     THEN [s1 EXCEPT !.queued = TRUE, !.microtasks = Append(@, "flush")]
     ELSE s1

\* useEffect that puts back the effect that was active when it was called
useEffectRestore(s, effect) ==
  LET s1 == Invoked([s EXCEPT !.currentEffect = effect], effect, "useEffect")
      s2 == RunFrom(s1, effect, 1, Undefined)
  IN IF s2.thrown THEN s2 ELSE [s2 EXCEPT !.currentEffect = s.currentEffect]

\* main.js:85-89; a throw of effect() skips line 88
useEffect(s, effect) ==
  LET s1 == Invoked([s EXCEPT !.currentEffect = effect], effect, "useEffect")
      s2 == RunFrom(s1, effect, 1, Undefined)
  IN IF s2.thrown THEN s2 ELSE [s2 EXCEPT !.currentEffect = Null]

\* the array iterator of `for (const effect of effectsForFlush)`: it reads
\* the live array, so entries pushed during the loop are visited too
ForOfDone(array, idx) == idx >= Len(array)

\* a flush that takes the entries from the end of the array
ForOfNextLifo(array, idx) == array[Len(array) - idx]

ForOfNext(array, idx) == array[idx + 1]

\* the flag with its reset of main.js:140 left out
queuedKept(q) == q

\* `queued = false`, main.js:140: the flag once the callback has started,
\* before flush() is called on the next line
queuedAtCallbackStart(q) == FALSE

\* one iteration of the for-of of flush, main.js:122-124
flushOne(s, effect) == RunFrom(Invoked(s, effect, "flush"), effect, 1, Undefined)

(* ------------------------------ actions -------------------------------- *)
Op(op, k, e, v) == [op |-> op, k |-> k, e |-> e, v |-> v]

Commit(s) ==
  /\ rawState' = s.rawState
  /\ propertyKeyToEffectsMap' = s.map
  /\ currentEffect' = s.currentEffect
  /\ effectsForFlush' = s.effectsForFlush
  /\ queued' = s.queued
  /\ microtasks' = s.microtasks
  /\ lastW' = s.lastW
  /\ inv' = s.inv
  /\ owed' = s.owed

Empty == [x \in {} |-> 0]

\* no list of the dependency map is longer than the bound
ListsBounded(s) == \A k \in DOMAIN s.map : Len(s.map[k]) <= MaxList

InitStore ==
  /\ rawState = Empty
  /\ propertyKeyToEffectsMap = [x \in {} |-> <<>>]
  /\ currentEffect = Null
  /\ effectsForFlush = <<>>
  /\ queued = FALSE
  /\ microtasks = <<>>
  /\ phase = "user"
  /\ flushIdx = 0
  /\ nreg = 0
  /\ lastW = Empty
  /\ inv = <<>>
  /\ lastOp = Op("init", "", Null, 0)
  /\ flushLog = <<>>
  /\ owed = <<>>

\* user code: state[k] = v
UserSet(k, v) ==
  /\ UNCHANGED dvars
  /\ phase = "user"
  /\ Len(effectsForFlush) +
       (IF k \in DOMAIN propertyKeyToEffectsMap
        THEN Len(propertyKeyToEffectsMap[k]) ELSE 0) <= MaxQueue
  /\ Commit(ProxySet(St, k, v))
  /\ lastOp' = Op("set", k, Null, v)
  /\ UNCHANGED <<phase, flushIdx, cfg, nreg, flushLog>>

\* user code: state[k]
UserGet(k) ==
  /\ UNCHANGED dvars
  /\ phase = "user"
  /\ ListsBounded(ProxyGet(St, k))
  /\ Commit(ProxyGet(St, k))
  /\ lastOp' = Op("get", k, Null, ReflectGet(rawState, k))
  /\ UNCHANGED <<phase, flushIdx, cfg, nreg, flushLog>>

\* user code: useEffect(e); an exception of e ends the turn
UserUseEffect(e) ==
  /\ UNCHANGED dvars
  /\ phase = "user"
  /\ nreg < MaxRegs
  /\ LET s == useEffect(St, e) IN
       /\ ListsBounded(s)
       /\ Commit(s)
       /\ phase' = IF s.thrown THEN "micro" ELSE "user"
       /\ lastOp' = Op(IF s.thrown THEN "useEffectThrow" ELSE "useEffect", "", e, 0)
  /\ nreg' = nreg + 1
  /\ UNCHANGED <<flushIdx, cfg, flushLog>>

\* user code: Promise.resolve().then(...) as main.js:253
UserThen ==
  /\ UNCHANGED dvars
  /\ phase = "user"
  /\ Len(microtasks) < MaxMicro
  /\ microtasks' = Append(microtasks, "user")
  /\ inv' = <<>>
  /\ lastOp' = Op("then", "", Null, 0)
  /\ UNCHANGED <<rawState, propertyKeyToEffectsMap, currentEffect,
                 effectsForFlush, queued, phase, flushIdx, cfg, nreg, lastW,
                 flushLog, owed>>

\* the synchronous user code of this turn returns
TurnEnd ==
  /\ UNCHANGED dvars
  /\ phase = "user"
  /\ phase' = "micro"
  /\ inv' = <<>>
  /\ lastOp' = Op("turnEnd", "", Null, 0)
  /\ UNCHANGED <<rawState, propertyKeyToEffectsMap, currentEffect,
                 effectsForFlush, queued, microtasks, flushIdx, cfg, nreg,
                 lastW, flushLog, owed>>

\* the host starts the next job of user code: a promise reaction when one
\* is at the head of the microtask queue, a timer callback when it is empty
UserJob ==
  /\ UNCHANGED dvars
  /\ phase = "micro"
  /\ \/ microtasks = <<>> /\ microtasks' = microtasks
     \/ microtasks # <<>> /\ Head(microtasks) = "user"
          /\ microtasks' = Tail(microtasks)
  /\ phase' = "user"
  /\ inv' = <<>>
  /\ lastOp' = Op("job", "", Null, 0)
  /\ UNCHANGED <<rawState, propertyKeyToEffectsMap, currentEffect,
                 effectsForFlush, queued, flushIdx, cfg, nreg, lastW,
                 flushLog, owed>>

\* the callback of queueMicrotask starts, main.js:139-141: queued = false,
\* then flush() begins its for-of at index 0
FlushStart ==
  /\ UNCHANGED dvars
  /\ phase = "micro"
  /\ microtasks # <<>> /\ Head(microtasks) = "flush"
  /\ microtasks' = Tail(microtasks)
  /\ queued' = queuedAtCallbackStart(queued)
  /\ phase' = "flush"
  /\ flushIdx' = 0
  /\ flushLog' = <<>>
  /\ inv' = <<>>
  /\ lastOp' = Op("flushStart", "", Null, 0)
  /\ UNCHANGED <<rawState, propertyKeyToEffectsMap, currentEffect,
                 effectsForFlush, cfg, nreg, lastW, owed>>

\* one iteration of the for-of, main.js:122-124; an exception of the effect
\* leaves flush and the callback, skipping line 127
FlushStep ==
  /\ UNCHANGED dvars
  /\ phase = "flush"
  /\ ~ForOfDone(effectsForFlush, flushIdx)
  /\ LET effect == ForOfNext(effectsForFlush, flushIdx)
         s == flushOne(St, effect)
     IN /\ Len(s.effectsForFlush) <= MaxFlushLen
        /\ ListsBounded(s)
        /\ Commit(s)
        /\ flushIdx' = flushIdx + 1
        /\ flushLog' = Append(flushLog, effect)
        /\ phase' = IF s.thrown THEN "micro" ELSE "flush"
        /\ lastOp' = Op(IF s.thrown THEN "flushThrow" ELSE "flushStep", "", effect, 0)
  /\ UNCHANGED <<cfg, nreg>>

\* the for-of is exhausted: effectsForFlush.length = 0, main.js:127
FlushEnd ==
  /\ UNCHANGED dvars
  /\ phase = "flush"
  /\ ForOfDone(effectsForFlush, flushIdx)
  /\ effectsForFlush' = <<>>
  /\ owed' = <<>>
  /\ phase' = "micro"
  /\ inv' = <<>>
  /\ lastOp' = Op("flushEnd", "", Null, Len(effectsForFlush))
  /\ UNCHANGED <<rawState, propertyKeyToEffectsMap, currentEffect, queued,
                 microtasks, flushIdx, cfg, nreg, lastW, flushLog>>

User ==
  \/ \E k \in cfg.wkeys, v \in cfg.vals : UserSet(k, v)
  \/ \E k \in Keys : UserGet(k)
  \/ \E e \in cfg.avail : UserUseEffect(e)
  \/ UserThen
  \/ TurnEnd

Host == UserJob \/ FlushStart \/ FlushStep \/ FlushEnd

Next == User \/ Host

(* ----------------------- template renderer ----------------------------- *)
\* A string is a sequence of atoms (lexical pieces of markup, words, digits).
\* JS values handed to html as expressions
StrV(s) == [t |-> "str", s |-> s, n |-> 0]
NumV(n) == [t |-> "num", s |-> <<>>, n |-> n]
UndefV == [t |-> "undef", s |-> <<>>, n |-> 0]

\* decimal digits of a natural number
RECURSIVE Digits(_)
Digits(n) == IF n < 10 THEN <<ToString(n)>>
             ELSE Digits(n \div 10) \o <<ToString(n % 10)>>

\* String(value), the conversion String.prototype.replace applies to what
\* the replacer returns
String(v) == CASE v.t = "str" -> v.s
               [] v.t = "num" -> Digits(v.n)
               [] OTHER -> <<"undefined">>

\* `__stub-${index}__`, main.js:208
Stub(index) == "__stub-" \o ToString(index) \o "__"

\* the call sites of html: the literal parts of their template
\*   site1, site2   <div class="${..}">${..}</div>             (main.js:231)
\*   two            <div class="${..}">${..}</div><div>second${..}</div>
\*   lit            <div>__stub-2__${..}</div>
\*   txt            hello${..}
Sites == {"site1", "site2", "two", "lit", "txt"}

Tokens(site) ==
  CASE site \in {"site1", "site2"} ->
         << <<"<div", "class=\"">>, <<"\"", ">">>, <<"</div>">> >>
    [] site = "two" ->
         << <<"<div", "class=\"">>, <<"\"", ">">>,
            <<"</div>", "<div", ">", "second">>, <<"</div>">> >>
    [] site = "lit" -> << <<"<div", ">", Stub(2)>>, <<"</div>">> >>
    [] OTHER -> << <<"hello">>, <<>> >>

ExprVals == {StrV(<<"red">>), StrV(<<"blue">>), NumV(10)}

\* the expressions of a tagged template: one per gap between the tokens
ExprsOf(site) == [1..(Len(Tokens(site)) - 1) -> ExprVals]

RECURSIVE Join(_)
Join(strs) == IF strs = <<>> THEN <<>> ELSE Head(strs) \o Join(Tail(strs))

NoElement == [attrs |-> <<>>, text |-> <<>>]

\* template.innerHTML = htmlString, main.js:193-198: the top-level elements
\* of the parsed fragment (text outside an element becomes a text node and
\* is no element; an element left open at the end is closed)
RECURSIVE ParseFrom(_, _, _, _, _)
ParseFrom(str, i, mode, cur, done) ==
  IF i > Len(str)
  THEN IF mode = "top" THEN done ELSE Append(done, cur)
  ELSE LET a == str[i] IN
    CASE mode = "top" ->
           IF a = "<div" THEN ParseFrom(str, i + 1, "tag", NoElement, done)
           ELSE ParseFrom(str, i + 1, "top", cur, done)
      [] mode = "tag" ->
           IF a = "class=\""
           THEN ParseFrom(str, i + 1, "attr",
                          [cur EXCEPT !.attrs = Append(@, <<>>)], done)
           ELSE IF a = ">" THEN ParseFrom(str, i + 1, "text", cur, done)
           ELSE ParseFrom(str, i + 1, "tag", cur, done)
      [] mode = "attr" ->
           IF a = "\"" THEN ParseFrom(str, i + 1, "tag", cur, done)
           ELSE ParseFrom(str, i + 1, "attr",
                  [cur EXCEPT !.attrs[Len(cur.attrs)] = Append(@, a)], done)
      [] OTHER ->
           IF a = "</div>"
           THEN ParseFrom(str, i + 1, "top", NoElement, Append(done, cur))
           ELSE ParseFrom(str, i + 1, "text",
                          [cur EXCEPT !.text = Append(@, a)], done)

transformHTMLStringToTemplate(htmlString) ==
  ParseFrom(htmlString, 1, "top", NoElement, <<>>)

\* main.js:200-202: every marker __stub-<digits>__ is replaced by
\* String(valueOfStubs[index]); valueOfStubs[index] is undefined when the
\* index is outside the array
replaceStubs(stringWithStubs, valueOfStubs) ==
  Join([i \in DOMAIN stringWithStubs |->
          LET a == stringWithStubs[i] IN
          IF \E index \in 0..MaxStub : a = Stub(index)
          THEN LET index == CHOOSE x \in 0..MaxStub : a = Stub(x)
               IN String(IF index < Len(valueOfStubs)
                         THEN valueOfStubs[index + 1] ELSE UndefV)
          ELSE <<a>>])

\* main.js:208-210
htmlStringWithStubs(tokens, expressions) ==
  LET stubs == [i \in DOMAIN expressions |-> Stub(i - 1)]
      tokensWithStubs ==
        [i \in DOMAIN tokens |->
           (IF i - 1 \in DOMAIN stubs THEN <<stubs[i - 1]>> ELSE <<>>)
             \o tokens[i]]
  IN Join(tokensWithStubs)

\* the content of a template taken from its last element
lastElementChild(content) == content[Len(content)]

\* clonedNodeWithStubs.firstElementChild, main.js:217
firstElementChild(content) == content[1]

\* html that compiles the template on every call
htmlNoCache(cache, site, expressions) ==
  LET tpl == transformHTMLStringToTemplate(
               htmlStringWithStubs(Tokens(site), expressions))
      element == firstElementChild(tpl)
  IN [cache |-> [x \in DOMAIN cache \cup {site} |->
                   IF x = site THEN tpl ELSE cache[x]],
      parsed |-> 1, hit |-> FALSE, err |-> tpl = <<>>,
      node |-> IF tpl = <<>> THEN NoElement
               ELSE [attrs |-> [i \in DOMAIN element.attrs |->
                                  replaceStubs(element.attrs[i], expressions)],
                     text |-> replaceStubs(element.text, expressions)]]

\* html that substitutes in the content of the cached template itself
\* instead of in a clone of it
htmlNoClone(cache, site, expressions) ==
  LET hit == site \in DOMAIN cache
      templateWithStubs ==
        IF hit THEN cache[site]
        ELSE transformHTMLStringToTemplate(
               htmlStringWithStubs(Tokens(site), expressions))
      err == templateWithStubs = <<>>
      element == firstElementChild(templateWithStubs)
      replaced == [attrs |-> [i \in DOMAIN element.attrs |->
                                replaceStubs(element.attrs[i], expressions)],
                   text |-> replaceStubs(element.text, expressions)]
  IN [cache |-> [x \in DOMAIN cache \cup {site} |->
                   IF x = site
                   THEN (IF err THEN templateWithStubs
                         ELSE [templateWithStubs EXCEPT ![1] = replaced])
                   ELSE cache[x]],
      parsed |-> IF hit THEN 0 ELSE 1,
      hit |-> hit,
      err |-> err,
      node |-> IF err THEN NoElement ELSE replaced]

\* main.js:204-228; the token array of a call site is the key by identity.
\* A fragment without an element makes line 220 throw a TypeError.
html(cache, site, expressions) ==
  LET hit == site \in DOMAIN cache
      templateWithStubs ==
        IF hit THEN cache[site]
        ELSE transformHTMLStringToTemplate(
               htmlStringWithStubs(Tokens(site), expressions))
      cache2 == IF hit THEN cache
                ELSE [x \in DOMAIN cache \cup {site} |->
                        IF x = site THEN templateWithStubs ELSE cache[x]]
      clonedNodeWithStubs == templateWithStubs
      err == clonedNodeWithStubs = <<>>
      element == firstElementChild(clonedNodeWithStubs)
  IN [cache |-> cache2,
      parsed |-> IF hit THEN 0 ELSE 1,
      hit |-> hit,
      err |-> err,
      node |-> IF err THEN NoElement
               ELSE [attrs |-> [i \in DOMAIN element.attrs |->
                                  replaceStubs(element.attrs[i], expressions)],
                     text |-> replaceStubs(element.text, expressions)]]

InitDom ==
  /\ tokensToTemplates = [x \in {} |-> <<>>]
  /\ parses = [x \in Sites |-> 0]
  /\ node = NoElement
  /\ lastCall = [site |-> "", expressions |-> <<>>, hit |-> FALSE, err |-> FALSE]

\* a call html`...` at a call site, as render does at main.js:230-232
Html(site, expressions) ==
  LET r == html(tokensToTemplates, site, expressions) IN
    /\ tokensToTemplates' = r.cache
    /\ parses' = [parses EXCEPT ![site] = @ + r.parsed]
    /\ node' = r.node
    /\ lastCall' = [site |-> site, expressions |-> expressions,
                    hit |-> r.hit, err |-> r.err]
    /\ UNCHANGED rvars

NextDom == \E site \in Sites : \E expressions \in ExprsOf(site) :
             Html(site, expressions)

Init ==
  /\ InitStore
  /\ InitDom
  /\ cfg = [avail |-> {"sumE", "watchE", "twiceE"}, vals |-> 1..MaxVal,
            wkeys |-> {"foo", "bar"}]

Spec == Init /\ [][Next]_vars

\* the demo of main.js:240-270: sumE alone, foo and bar written with 1..4
InitSum ==
  /\ InitStore
  /\ InitDom
  /\ cfg = [avail |-> {"sumE"}, vals |-> 1..SumMaxVal, wkeys |-> {"foo", "bar"}]

SpecSum == InitSum /\ [][Next]_vars

\* user code that also registers an effect writing a key it reads
InitLoop ==
  /\ InitStore
  /\ InitDom
  /\ cfg = [avail |-> {"selfE", "watchE"}, vals |-> 1..MaxVal,
            wkeys |-> {"foo", "sum"}]

\* the host runs every job to its end and drains the microtask queue
SpecLoop == InitLoop /\ [][Next]_vars /\ WF_vars(Host) /\ WF_vars(TurnEnd)

SpecDom == Init /\ [][NextDom]_vars

\* user code with an effect that throws when bar is 2; user code writes
\* bar only, the key both effects read
InitThrow ==
  /\ InitStore
  /\ InitDom
  /\ cfg = [avail |-> {"throwE", "sumE"}, vals |-> 1..MaxVal,
            wkeys |-> {"bar"}]

SpecThrow == InitThrow /\ [][Next]_vars

\* user code with an effect that calls useEffect in its body
InitNest ==
  /\ InitStore
  /\ InitDom
  /\ cfg = [avail |-> {"outerE"}, vals |-> 1..MaxVal, wkeys |-> {"foo", "bar"}]

SpecNest == InitNest /\ [][Next]_vars

\* effects that neither throw nor write a key they read, under a host that
\* runs every job to its end and drains the microtask queue; user code
\* writes the one value 1, the values playing no part in the scheduling
InitFair ==
  /\ InitStore
  /\ InitDom
  /\ cfg = [avail |-> {"sumE", "watchE"}, vals |-> {1},
            wkeys |-> {"foo", "bar"}]

SpecFair == InitFair /\ [][Next]_vars /\ WF_vars(Host) /\ WF_vars(TurnEnd)

(* ============================== claims ================================= *)
Count(e, seq) == Cardinality({i \in DOMAIN seq : seq[i] = e})

Exhausted == phase = "flush" /\ ForOfDone(effectsForFlush, flushIdx)

\* C1 (coalescing): a flush invocation of an effect happens only in a step
\* of the deferred flush, never in a step of the user's turn (set, get,
\* useEffect, then, end of turn), and at that invocation every key holds the
\* last value that was written to it.
C1_Coalescing ==
  /\ \A i \in DOMAIN inv :
       inv[i].via = "flush" =>
         /\ lastOp.op \in {"flushStep", "flushThrow"}
         /\ inv[i].stale = {}
  /\ lastOp.op \in {"set", "get", "then", "turnEnd", "job"} => inv = <<>>

\* two writes of one turn are pending for sumE and the flush has just run it
\* on the final values
C1_Witness ==
  /\ lastOp.op = "flushStep" /\ lastOp.e = "sumE"
  /\ owed = <<"sumE", "sumE">> /\ flushIdx = 1
  /\ "foo" \in DOMAIN rawState /\ "bar" \in DOMAIN rawState
  /\ rawState["foo"] = 2 /\ rawState["bar"] = 2 /\ rawState["sum"] = 4

\* C2 (immediate registration): a step useEffect(e) has invoked e exactly
\* once, synchronously, and nothing in that step was invoked by a flush,
\* whatever the state of the scheduler.
C2_ImmediateRegistration ==
  lastOp.op \in {"useEffect", "useEffectThrow"} =>
    /\ Cardinality({i \in DOMAIN inv : inv[i].e = lastOp.e}) = 1
    /\ \A i \in DOMAIN inv : inv[i].via = "useEffect"
    /\ inv[1].e = lastOp.e

\* useEffect has just returned while a flush was armed and effects queued
C2_Witness ==
  /\ lastOp.op = "useEffect" /\ queued /\ effectsForFlush # <<>>
  /\ phase = "user" /\ Len(inv) = 1

\* C3 (FIFO flush): the effects a flush has invoked so far are exactly the
\* first flushIdx entries of effectsForFlush, in that order; so at
\* exhaustion every entry, the ones pushed during the pass included, has
\* been invoked in the order of its push and the array is not yet cleared.
C3_FifoFlush ==
  phase = "flush" =>
    /\ flushIdx <= Len(effectsForFlush)
    /\ flushLog = SubSeq(effectsForFlush, 1, flushIdx)

\* watchE was pushed by the write of sumE during the pass and ran after it
C3_Witness ==
  /\ Exhausted
  /\ flushLog = <<"sumE", "watchE">>
  /\ effectsForFlush = <<"sumE", "watchE">>

\* no effect of the pass writes a key that has an entry in the map
NoTrackedWrite(log) ==
  \A i \in DOMAIN log : \A j \in DOMAIN Body(log[i]) :
    Body(log[i])[j].op = "set" =>
      Body(log[i])[j].k \notin DOMAIN propertyKeyToEffectsMap

\* no effect is listed twice under one key
NoDupReg ==
  \A k \in DOMAIN propertyKeyToEffectsMap : \A e \in Effects :
    Count(e, propertyKeyToEffectsMap[k]) <= 1

\* C4 (at most once per turn): when no effect of the pass writes a tracked
\* property, a completed flush has invoked each effect at most once.
C4_AtMostOncePerFlush ==
  (Exhausted /\ NoTrackedWrite(flushLog) /\ NoDupReg) =>
    \A e \in Effects : Count(e, flushLog) <= 1

C10_ArmedWhileFlushing == phase = "flush" => queued

\* C10 (amended): the flag falls only in the step that starts the deferred
\* callback, before any effect is invoked; the step that ends the flush
\* clears effectsForFlush and leaves the flag alone; and when the flag rises
\* during a flush a further flush callback has been scheduled.
C10_FlagLifecycle ==
  [][ /\ (queued /\ ~queued') => (phase = "micro" /\ phase' = "flush")
      /\ (phase = "micro" /\ phase' = "flush") =>
           (queued /\ ~queued' /\ flushIdx' = 0
              /\ effectsForFlush' = effectsForFlush)
      /\ (phase = "flush" /\ lastOp'.op = "flushEnd") =>
           (effectsForFlush' = <<>> /\ queued' = queued)
      /\ (phase = "flush" /\ ~queued /\ queued') =>
           microtasks' = Append(microtasks, "flush")
    ]_vars

\* an effect of the running flush has written a tracked key: the flag is
\* true again and a second flush callback waits
C10_Witness ==
  /\ phase = "flush" /\ flushIdx >= 1 /\ queued
  /\ microtasks # <<>> /\ microtasks[Len(microtasks)] = "flush"

\* the stored values of the sum scenario
Foo == ReflectGet(rawState, "foo")
Bar == ReflectGet(rawState, "bar")
Sum == ReflectGet(rawState, "sum")
SumFresh == Sum = Foo + Bar

C7_TemplateReuse ==
  [][ \A site \in Sites :
        /\ parses'[site] <= 1
        /\ site \in DOMAIN tokensToTemplates =>
             /\ site \in DOMAIN tokensToTemplates'
             /\ tokensToTemplates'[site] = tokensToTemplates[site]
             /\ parses'[site] = parses[site]
    ]_vars

\* a second call at the call site of render, with other values, hit the cache
C7_Witness ==
  /\ lastCall.site = "site1" /\ lastCall.hit /\ parses["site1"] = 1
  /\ node = [attrs |-> << <<"blue">> >>, text |-> <<"1", "0">>]

\* C9 (single root): a call on the template with two top-level elements
\* raises no error and returns the first element with its stubs replaced:
\* the class is the first expression, the text is the second, and neither
\* the literal text nor the expression of the second element is in it.
C9_SingleRoot ==
  lastCall.site = "two" =>
    /\ Len(tokensToTemplates["two"]) = 2
    /\ ~lastCall.err
    /\ node.attrs = <<String(lastCall.expressions[1])>>
    /\ node.text = String(lastCall.expressions[2])
    /\ \A i \in DOMAIN node.text : node.text[i] # "second"

\* the two-element template was rendered with a third expression that
\* differs from the text that was returned
C9_Witness ==
  /\ lastCall.site = "two"
  /\ lastCall.expressions = <<StrV(<<"red">>), StrV(<<"blue">>), NumV(10)>>
  /\ node = [attrs |-> << <<"red">> >>, text |-> <<"blue">>]

\* C11 (one pending callback): the microtask queue holds at most one flush
\* callback that has not started, and queued is true exactly when it holds
\* one; so writes made while queued is true add no callback.
C11_OnePendingFlush ==
  /\ Count("flush", microtasks) <= 1
  /\ queued <=> Count("flush", microtasks) = 1

\* two writes have pushed effects while the flag was set and one callback
\* waits
C11_Witness ==
  /\ lastOp.op = "set" /\ queued /\ Len(owed) >= 2
  /\ Count("flush", microtasks) = 1

\* the step just taken was an invocation of an effect by a flush
FlushRan == lastOp'.op \in {"flushStep", "flushThrow"}

\* the dependency map after the step has the lists it had before it, and
\* an empty list for every key the step created
MapListsKept ==
  \A k \in DOMAIN propertyKeyToEffectsMap' :
    propertyKeyToEffectsMap'[k] =
      IF k \in DOMAIN propertyKeyToEffectsMap
      THEN propertyKeyToEffectsMap[k] ELSE <<>>

\* C12 (registration only during useEffect): when a flush invokes an effect
\* the active-effect slot is empty and the reads of the effect append
\* nothing to any list of the dependency map.
C12_NoRegistrationInFlush ==
  [][FlushRan => /\ currentEffect = Null
                 /\ MapListsKept]_vars

\* the step just taken was the user write state[k] = v with no effect
\* registered for k: k has no entry in the dependency map, or an empty list
WroteUntracked ==
  /\ lastOp'.op = "set"
  /\ \/ lastOp'.k \notin DOMAIN propertyKeyToEffectsMap
     \/ propertyKeyToEffectsMap[lastOp'.k] = <<>>

\* C13 (flush armed only for keys with effects): a write to a key whose
\* list is empty or absent schedules no flush callback and leaves the
\* flush flag as it was.
C13_NoFlushForUntrackedKey ==
  [][WroteUntracked => /\ queued' = queued
                       /\ microtasks' = microtasks]_vars

\* C14 (no lost update), for effects that do not throw and flushes that
\* terminate: the entries pushed by writes since the last completed flush
\* are eventually all invoked, in the order of their push, by a flush that
\* runs to exhaustion; and whenever the flush flag is false and no flush is
\* executing, the pending queue is empty.
C14_NoLostUpdate ==
  /\ [](~queued /\ phase # "flush" => effectsForFlush = <<>>)
  /\ (owed # <<>>) ~> (Exhausted /\ flushLog = owed)

\* a flush has just completed after invoking the entries of several writes
C14_Witness ==
  /\ lastOp.op = "flushEnd" /\ Len(flushLog) >= 2
  /\ ~queued /\ phase = "micro"
  /\ effectsForFlush = <<>> /\ owed = <<>>

\* the step just taken was the user call useEffect(outerE), whose body calls
\* useEffect(innerE), which reads bar, and then reads foo itself
NestedCall == lastOp'.op = "useEffect" /\ lastOp'.e = "outerE"

\* the list of key k, empty when the key has no entry
ListOf(map, k) == IF k \in DOMAIN map THEN map[k] ELSE <<>>

\* C15 (re-entrancy hazard): in a nested call the read of the inner effect
\* is attributed to the inner effect only; the slot is empty once the inner
\* call has returned, so the later read of the outer effect registers
\* nothing. The outer effect is in no list of the dependency map, and no
\* write ever enqueues it.
C15_NestedUseEffect ==
  /\ [][NestedCall =>
          /\ ListOf(propertyKeyToEffectsMap', "bar") =
               Append(ListOf(propertyKeyToEffectsMap, "bar"), "innerE")
          /\ ListOf(propertyKeyToEffectsMap', "foo") =
               ListOf(propertyKeyToEffectsMap, "foo")
          /\ "foo" \in DOMAIN propertyKeyToEffectsMap'
          /\ currentEffect' = Null]_vars
  /\ [](/\ \A k \in DOMAIN propertyKeyToEffectsMap :
             Count("outerE", propertyKeyToEffectsMap[k]) = 0
        /\ Count("outerE", effectsForFlush) = 0)

\* after the nested call, the key read by the outer effect was written and
\* nothing was enqueued
C15_Witness ==
  /\ lastOp.op = "set" /\ lastOp.k = "foo" /\ nreg > 0
  /\ ListOf(propertyKeyToEffectsMap, "bar") # <<>>
  /\ ListOf(propertyKeyToEffectsMap, "foo") = <<>>
  /\ "foo" \in DOMAIN propertyKeyToEffectsMap
  /\ effectsForFlush = <<>>

\* C16 (slot empty outside useEffect): between the operations of the
\* program, when no useEffect call is in progress, the active-effect slot is
\* empty, also after a useEffect call whose effect threw; so a read made
\* outside any useEffect call registers no effect.
C16_SlotEmptyOutsideUseEffect ==
  /\ [](currentEffect = Null)
  /\ [][lastOp'.op = "get" => MapListsKept]_vars

\* C17 (failed flush): once an effect has thrown during a flush, the
\* pending queue holds no entry of that flush.
C17_FailedFlushDropsQueue ==
  lastOp.op = "flushThrow" => effectsForFlush = <<>>

\* sequence p is a prefix of sequence q
IsPrefix(p, q) == Len(p) <= Len(q) /\ p = SubSeq(q, 1, Len(p))

\* C18 (append-only dependency map): no step removes a key, and the list a
\* key had before a step is a prefix of the list it has after it; a read
\* creates the entry of its key, also when the active-effect slot is empty;
\* a write by user code, the start and the end of a flush and the steps
\* that run no code of the store leave the map as it is.
C18_AppendOnlyMap ==
  [][/\ \A k \in DOMAIN propertyKeyToEffectsMap :
          /\ k \in DOMAIN propertyKeyToEffectsMap'
          /\ IsPrefix(propertyKeyToEffectsMap[k], propertyKeyToEffectsMap'[k])
     /\ lastOp'.op = "get" =>
          /\ lastOp'.k \in DOMAIN propertyKeyToEffectsMap'
          /\ currentEffect = Null => MapListsKept
     /\ lastOp'.op \in {"set", "flushStart", "flushEnd", "then", "turnEnd",
                        "job"} =>
          propertyKeyToEffectsMap' = propertyKeyToEffectsMap]_vars

\* a read outside any effect has just created the empty entry of a key
\* while other keys keep the effects registered for them
C18_Witness ==
  /\ lastOp.op = "get" /\ currentEffect = Null
  /\ propertyKeyToEffectsMap[lastOp.k] = <<>>
  /\ \E k \in DOMAIN propertyKeyToEffectsMap :
       Len(propertyKeyToEffectsMap[k]) >= 2

\* C19 (marker without expression): a marker __stub-2__ in the content of
\* a template called with one expression is left as literal text in the
\* rendered node, next to the substituted value of the expression.
C19_UnmatchedStubKept ==
  lastCall.site = "lit" =>
    node.text = <<Stub(2)>> \o String(lastCall.expressions[1])

\* the call sites of the template of render, main.js:231
RenderSites == {"site1", "site2"}

\* C20 (immutable compiled template): the cached template of render keeps
\* its stub markers whatever calls were made, and the node a call returns
\* has marker 0 of the attribute and marker 1 of the text replaced by the
\* stringified expressions of that call, never by those of another call.
C20_TemplateImmutable ==
  /\ \A site \in RenderSites \cap DOMAIN tokensToTemplates :
       tokensToTemplates[site] =
         << [attrs |-> << <<Stub(0)>> >>, text |-> <<Stub(1)>>] >>
  /\ lastCall.site \in RenderSites =>
       node = [attrs |-> <<String(lastCall.expressions[1])>>,
               text |-> String(lastCall.expressions[2])]

\* a later call on a cached template returned the values of that call
C20_Witness ==
  /\ lastCall.site = "site2" /\ lastCall.hit /\ parses["site2"] = 1
  /\ lastCall.expressions = <<NumV(10), StrV(<<"red">>)>>
  /\ node = [attrs |-> << <<"1", "0">> >>, text |-> <<"red">>]
  /\ "site1" \in DOMAIN tokensToTemplates

====
